---- MODULE Spec2Model ----
(***************************************************************************)
(* Black-Scholes option pricing: the closed-form pricer, the Greeks, the   *)
(* implied-volatility solver and the HTTP wrapper, as pure functions over  *)
(* fixed-point numbers, and a state machine that calls them.               *)
(*                                                                         *)
(* Numbers.  A Python float x is the integer round(x * SCALE).  Sums and   *)
(* differences are exact; products, quotients and the math functions are   *)
(* rounded to the nearest unit, so a price carries an error of a few       *)
(* units times the spot (below PriceTol).  Statements the source makes to  *)
(* 1e-6 or 1e-8 are stated here with the tolerance PriceTol.               *)
(*                                                                         *)
(* Exceptions.  A call's outcome is a record [exc, val]: exc = "none" and  *)
(* the value returned, or the name of the exception raised.  Python's      *)
(* float division raises ZeroDivisionError on a zero divisor, math.log     *)
(* raises ValueError on an argument <= 0, math.sqrt raises ValueError on   *)
(* an argument < 0.                                                        *)
(***************************************************************************)
EXTENDS Integers, Sequences, FiniteSets, TLC

\* One unit of the fixed-point representation of a float is 1/SCALE.
SCALE == 1000000

Abs(x) == IF x < 0 THEN -x ELSE x
Sgn(x) == IF x < 0 THEN -1 ELSE IF x > 0 THEN 1 ELSE 0
Max(a, b) == IF a >= b THEN a ELSE b
Min(a, b) == IF a <= b THEN a ELSE b

\* a / k for an integer k > 0, rounded to nearest.
RDiv(a, k) ==
  Sgn(a) * (Abs(a) \div k + (IF 2 * (Abs(a) % k) >= k THEN 1 ELSE 0))

\* |a| * |b| / SCALE rounded to nearest, without leaving 32 bits.
MulAbs(a, b) ==
  LET ah == a \div 1000
      al == a % 1000
      bh == b \div 1000
      bl == b % 1000
      t  == ah * bl + al * bh
  IN  ah * bh + t \div 1000 + ((t % 1000) * 1000 + al * bl + 500000) \div 1000000

\* Python's a * b on floats.
MulFix(a, b) == Sgn(a) * Sgn(b) * MulAbs(Abs(a), Abs(b))

\* Long division: k more decimal digits of rem / b appended to acc.
RECURSIVE DivDigits(_, _, _, _)
DivDigits(rem, b, acc, k) ==
  IF k = 0 THEN acc + (IF 2 * rem >= b THEN 1 ELSE 0)
  ELSE DivDigits((rem * 10) % b, b, acc * 10 + (rem * 10) \div b, k - 1)

\* |a| / |b| in units; a divisor too wide for the long division gives up
\* its last digit together with the dividend.
DivAbs(a, b) ==
  IF b > 200000000
    THEN DivDigits(RDiv(a, 10) % RDiv(b, 10), RDiv(b, 10),
                   RDiv(a, 10) \div RDiv(b, 10), 6)
  ELSE DivDigits(a % b, b, a \div b, 6)

\* Python's a / b on floats for b # 0.
DivFix(a, b) == Sgn(a) * Sgn(b) * DivAbs(Abs(a), Abs(b))

\* |d1| beyond which math.erf returns exactly +1.0 or -1.0 in double precision.
DClamp == 40

\* a / b where the quotient is only used as an argument of N: beyond DClamp
\* the float result of N is exactly 0.0 or 1.0, so the quotient is capped.
DivClamp(a, b) ==
  IF Abs(a) \div Abs(b) >= DClamp THEN Sgn(a) * Sgn(b) * DClamp * SCALE
  ELSE DivFix(a, b)

\* sum of x^k/k! from the term `term` (= x^(k-1)/(k-1)!) on.
RECURSIVE ExpSeries(_, _, _, _)
ExpSeries(x, term, k, acc) ==
  IF term = 0 \/ k > 20 THEN acc
  ELSE LET nxt == RDiv(MulFix(term, x), k)
       IN  ExpSeries(x, nxt, k + 1, acc + nxt)

\* x * x
Square(x) == MulFix(x, x)

\* math.exp(x); 0 below the resolution.
RECURSIVE Exp(_)
Exp(x) ==
  IF x < -15 * SCALE THEN 0
  ELSE IF Abs(x) <= SCALE \div 2 THEN ExpSeries(x, SCALE, 1, SCALE)
  ELSE MulFix(Square(Exp(x \div 2)), IF x % 2 = 1 THEN SCALE + 1 ELSE SCALE)

\* ln 2
LN2 == 693147

\* sum of z^k/k over the odd k from the power `pow` (= z^k) on.
RECURSIVE AtanhSeries(_, _, _, _)
AtanhSeries(z2, pow, k, acc) ==
  IF pow = 0 \/ k > 25 THEN acc
  ELSE AtanhSeries(z2, MulFix(pow, z2), k + 2, acc + RDiv(pow, k))

\* math.log(x) for x > 0.
RECURSIVE Ln(_)
Ln(x) ==
  IF x > (14 * SCALE) \div 10 THEN Ln(x \div 2) + LN2
  ELSE IF x < (7 * SCALE) \div 10 THEN Ln(2 * x) - LN2
  ELSE LET z == DivFix(x - SCALE, x + SCALE)
       IN  2 * AtanhSeries(MulFix(z, z), z, 1, 0)

RECURSIVE SqrtNewton(_, _, _)
SqrtNewton(x, y, fuel) ==
  LET y2 == RDiv(y + DivFix(x, y), 2)
  IN  IF fuel = 0 \/ y2 = y THEN y ELSE SqrtNewton(x, y2, fuel - 1)

\* math.sqrt(x) for x >= 0.
Sqrt(x) == IF x = 0 THEN 0 ELSE SqrtNewton(x, (x + SCALE) \div 2, 40)

\* math.sqrt(2)
SQRT2 == 1414214
\* math.sqrt(2 * math.pi)
SQRT2PI == 2506628

\* math.erf(z) for z >= 0 (Abramowitz-Stegun 7.1.26, error below one unit).
ErfPos(z) ==
  LET t == DivFix(SCALE, SCALE + MulFix(327591, z))
      p == MulFix(t, 254830 + MulFix(t, -284497 + MulFix(t, 1421414
             + MulFix(t, -1453152 + MulFix(t, 1061405)))))
  IN  SCALE - MulFix(p, Exp(-MulFix(z, z)))

\* math.erf(z)
Erf(z) == Sgn(z) * ErfPos(Abs(z))

\* N = lambda x: 0.5 * (1 + math.erf(x / math.sqrt(2)))
N(x) == RDiv(SCALE + Erf(DivFix(x, SQRT2)), 2)

\* n(x) = math.exp(-0.5 * x ** 2) / math.sqrt(2 * math.pi)
n(x) == DivFix(Exp(-RDiv(MulFix(x, x), 2)), SQRT2PI)

\* The tail of N in double precision.  math.erf returns the double nearest
\* to erf, so for x far below 0 the sum 1 + erf(x / sqrt 2) is a whole number
\* of units of 2^-53 and N(x) a whole number of units of 2^-54: the nearest
\* to Phi(x) * 2^54.  DTail is the |x| from which the model counts N so.
DTail == (15 * SCALE) \div 2
\* 54 * ln 2
LN2POW54 == 37429947
\* ln(Phi(x) * 2^54) for x <= -DTail, by the asymptotic series of the tail:
\* Phi(x) = n(x) / |x| * (1 - 1/x^2 + 3/x^4 - 15/x^6 + 105/x^8).
LnTailUlps(x) ==
  LET x2 == MulFix(x, x)
      i2 == DivFix(SCALE, x2)
      i4 == MulFix(i2, i2)
      series == SCALE - i2 + 3 * i4 - 15 * MulFix(i4, i2)
                  + 105 * MulFix(i4, i4)
  IN  LN2POW54 - RDiv(x2, 2) - Ln(-x) - Ln(SQRT2PI) + Ln(series)

\* N(x) * 2^54 as math.erf and the float sum give it, for x <= -DTail.
NUlps(x) ==
  IF LnTailUlps(x) < -SCALE THEN 0 ELSE RDiv(Exp(LnTailUlps(x)), SCALE)

\* A call's outcome: the value returned, or the exception raised.
Ok(v) == [exc |-> "none", nan |-> FALSE, val |-> v]
Raise(e) == [exc |-> e, nan |-> FALSE, val |-> 0]
\* np.nan, the not-found result of implied_vol.
NaN == [exc |-> "none", nan |-> TRUE, val |-> 0]

Failed(o) == o.exc # "none"

\* math.log(S / K): the quotient first, then the logarithm.
LogMoneyness(S, K) ==
  IF K = 0 THEN Raise("ZeroDivisionError")
  ELSE IF DivFix(S, K) <= 0 THEN Raise("ValueError")
  ELSE Ok(Ln(DivFix(S, K)))

\* The d1 of black_scholes_price (T > 0 and sigma > 0 there).
bs_d1(S, K, T, r, sigma, q) ==
  LET lg == LogMoneyness(S, K)
      drift == MulFix(r - q + RDiv(MulFix(sigma, sigma), 2), T)
      den == MulFix(sigma, Sqrt(T))
  IN  IF Failed(lg) THEN lg
      ELSE IF den = 0 THEN Raise("ZeroDivisionError")
      ELSE Ok(DivClamp(lg.val + drift, den))

\* d2 = d1 - sigma * math.sqrt(T)
bs_d2(d1, T, sigma) == d1 - MulFix(sigma, Sqrt(T))

\* max(0.0, S - K) for a call, max(0.0, K - S) otherwise.
Intrinsic(S, K, option_type) ==
  IF option_type = "call" THEN Max(0, S - K) ELSE Max(0, K - S)

\* The general branch of black_scholes_price (T > 0 and sigma > 0).
bs_general(S, K, T, r, sigma, option_type, q) ==
  LET d1o == bs_d1(S, K, T, r, sigma, q)
      d1 == d1o.val
      d2 == bs_d2(d1, T, sigma)
      Sq == MulFix(S, Exp(-MulFix(q, T)))
      Kr == MulFix(K, Exp(-MulFix(r, T)))
  IN  IF Failed(d1o) THEN d1o
      ELSE IF option_type = "call"
        THEN Ok(MulFix(Sq, N(d1)) - MulFix(Kr, N(d2)))
      ELSE Ok(MulFix(Kr, N(-d2)) - MulFix(Sq, N(-d1)))

\* Both arguments of N in the general branch are at or below -DTail: d1 (and
\* with it d2 < d1) for a call, -d2 (and with it -d1 < -d2) for a put.
InTail(d1, d2, option_type) ==
  IF option_type = "call" THEN d1 <= -DTail ELSE -d2 <= -DTail

\* The general branch there, in units of 2^-54 / 1000: the two products of
\* lines 44 and 46 with N counted in units of 2^-54, and their difference.
bs_tail(S, K, T, r, option_type, q, d1, d2) ==
  IF option_type = "call"
    THEN RDiv(MulFix(S, Exp(-MulFix(q, T))), 1000) * NUlps(d1)
           - RDiv(MulFix(K, Exp(-MulFix(r, T))), 1000) * NUlps(d2)
  ELSE RDiv(MulFix(K, Exp(-MulFix(r, T))), 1000) * NUlps(-d2)
         - RDiv(MulFix(S, Exp(-MulFix(q, T))), 1000) * NUlps(-d1)

\* black_scholes_price with the two degenerate branches in the other order.
black_scholes_price_vol_first(S, K, T, r, sigma, option_type, q) ==
  IF sigma <= 0
    THEN Ok(MulFix(Exp(-MulFix(r, T)), Intrinsic(S, K, option_type)))
  ELSE IF T <= 0 THEN Ok(Intrinsic(S, K, option_type))
  ELSE bs_general(S, K, T, r, sigma, option_type, q)

\* black_scholes_price with the volatility-free branch taken on sigma < 0 only.
black_scholes_price_strict_vol(S, K, T, r, sigma, option_type, q) ==
  IF T <= 0 THEN Ok(Intrinsic(S, K, option_type))
  ELSE IF sigma < 0
    THEN Ok(MulFix(Exp(-MulFix(r, T)), Intrinsic(S, K, option_type)))
  ELSE bs_general(S, K, T, r, sigma, option_type, q)

black_scholes_price(S, K, T, r, sigma, option_type, q) ==
  IF T <= 0 THEN Ok(Intrinsic(S, K, option_type))
  ELSE IF sigma <= 0
    THEN Ok(MulFix(Exp(-MulFix(r, T)), Intrinsic(S, K, option_type)))
  ELSE bs_general(S, K, T, r, sigma, option_type, q)

\* greeks._d1: no dividend yield, no branch on T or sigma.
_d1(S, K, T, r, sigma) ==
  LET lg == LogMoneyness(S, K)
      drift == MulFix(r + RDiv(MulFix(sigma, sigma), 2), T)
      den == MulFix(sigma, Sqrt(T))
  IN  IF Failed(lg) THEN lg
      ELSE IF T < 0 THEN Raise("ValueError")
      ELSE IF den = 0 THEN Raise("ZeroDivisionError")
      ELSE Ok(DivClamp(lg.val + drift, den))

_d2(S, K, T, r, sigma) ==
  LET d1o == _d1(S, K, T, r, sigma)
  IN  IF Failed(d1o) THEN d1o ELSE Ok(d1o.val - MulFix(sigma, Sqrt(T)))

\* delta with the put's shift by one left out.
delta_unshifted(S, K, T, r, sigma, option_type) ==
  LET d1o == _d1(S, K, T, r, sigma)
  IN  IF Failed(d1o) THEN d1o ELSE Ok(N(d1o.val))

delta(S, K, T, r, sigma, option_type) ==
  LET d1o == _d1(S, K, T, r, sigma)
  IN  IF Failed(d1o) THEN d1o
      ELSE IF option_type = "call" THEN Ok(N(d1o.val))
      ELSE Ok(N(d1o.val) - SCALE)

gamma(S, K, T, r, sigma) ==
  LET d1o == _d1(S, K, T, r, sigma)
      den == MulFix(MulFix(S, sigma), Sqrt(T))
  IN  IF Failed(d1o) THEN d1o
      ELSE IF den = 0 THEN Raise("ZeroDivisionError")
      ELSE Ok(DivFix(n(d1o.val), den))

theta(S, K, T, r, sigma, option_type) ==
  LET d1o == _d1(S, K, T, r, sigma)
      d2o == _d2(S, K, T, r, sigma)
      first == DivFix(MulFix(MulFix(-S, n(d1o.val)), sigma), 2 * Sqrt(T))
      rK == MulFix(MulFix(r, K), Exp(-MulFix(r, T)))
  IN  IF Failed(d1o) THEN d1o
      ELSE IF option_type = "call"
        THEN Ok(RDiv(first - MulFix(rK, N(d2o.val)), 365))
      ELSE Ok(RDiv(first + MulFix(rK, N(-d2o.val)), 365))

vega(S, K, T, r, sigma) ==
  LET d1o == _d1(S, K, T, r, sigma)
  IN  IF Failed(d1o) THEN d1o
      ELSE Ok(RDiv(MulFix(MulFix(S, n(d1o.val)), Sqrt(T)), 100))

rho(S, K, T, r, sigma, option_type) ==
  LET d2o == _d2(S, K, T, r, sigma)
      KT == MulFix(MulFix(K, T), Exp(-MulFix(r, T)))
  IN  IF Failed(d2o) THEN d2o
      ELSE IF option_type = "call" THEN Ok(RDiv(MulFix(KT, N(d2o.val)), 100))
      ELSE Ok(RDiv(MulFix(-KT, N(-d2o.val)), 100))

\* The exception classes the model raises; all derive from Exception.
ExceptionClasses ==
  {"ValueError", "ZeroDivisionError", "RuntimeError", "OverflowError"}

\* price - market_price, or the exception the pricer raised.
Less(p, market_price) == IF Failed(p) THEN p ELSE Ok(p.val - market_price)

\* objective with the option kind left at the pricer's default, "call".
objective_default_kind(S, K, T, r, market_price, option_type, sigma) ==
  Less(black_scholes_price(S, K, T, r, sigma, "call", 0), market_price)

\* objective(sigma) of implied_vol: the price at sigma (q = 0) less the market price.
objective(S, K, T, r, market_price, option_type, sigma) ==
  Less(black_scholes_price(S, K, T, r, sigma, option_type, 0), market_price)

\* The bracket and the iteration budget implied_vol hands to brentq.
BracketLo == 1
BracketHi == 5000000
MaxIter == 100

\* What brentq ends with: the root or the exception (res) and the number of
\* iterations of its loop (it).
Solved(res, it) == [res |-> res, it |-> it]

\* brentq's loop on a bracket [lo, hi] that keeps a sign change of the
\* objective (flo at lo, fhi at hi) after `it` iterations: it ends on a
\* bracket of one unit (the solver's tolerance) or on an exact zero, raises
\* RuntimeError when the budget is spent, and otherwise evaluates the
\* objective once inside the bracket (fm at mid, in BrentNarrow) and keeps
\* the part that still holds the sign change.
RECURSIVE BrentLoop(_, _, _, _, _, _, _, _, _, _, _)
BrentNarrow(S, K, T, r, market_price, option_type, lo, hi, flo, fhi, it, mid, fm) ==
  IF Failed(fm) THEN Solved(fm, it + 1)
  ELSE IF fm.val = 0 THEN Solved(Ok(mid), it + 1)
  ELSE IF Sgn(fm.val) = Sgn(flo)
    THEN BrentLoop(S, K, T, r, market_price, option_type,
                   mid, hi, fm.val, fhi, it + 1)
  ELSE BrentLoop(S, K, T, r, market_price, option_type,
                 lo, mid, flo, fm.val, it + 1)

BrentLoop(S, K, T, r, market_price, option_type, lo, hi, flo, fhi, it) ==
  IF hi - lo <= 1
    THEN Solved(Ok(IF Abs(flo) <= Abs(fhi) THEN lo ELSE hi), it)
  ELSE IF it >= MaxIter THEN Solved(Raise("RuntimeError"), it)
  ELSE BrentNarrow(S, K, T, r, market_price, option_type, lo, hi, flo, fhi,
         it, (lo + hi) \div 2,
         objective(S, K, T, r, market_price, option_type, (lo + hi) \div 2))

\* brentq's entry with the objective at both ends (fa, fb): an exception of
\* the objective, an end that is a root, the sign check, then the loop.
BrentStart(S, K, T, r, market_price, option_type, fa, fb) ==
  IF Failed(fa) THEN Solved(fa, 0)
  ELSE IF Failed(fb) THEN Solved(fb, 0)
  ELSE IF fa.val = 0 THEN Solved(Ok(BracketLo), 0)
  ELSE IF fb.val = 0 THEN Solved(Ok(BracketHi), 0)
  ELSE IF Sgn(fa.val) = Sgn(fb.val) THEN Solved(Raise("ValueError"), 0)
  ELSE BrentLoop(S, K, T, r, market_price, option_type,
                 BracketLo, BracketHi, fa.val, fb.val, 0)

\* brentq(objective, 1e-6, 5.0, maxiter=100) with its iteration count.
brentq_full_output(S, K, T, r, market_price, option_type) ==
  BrentStart(S, K, T, r, market_price, option_type,
    objective(S, K, T, r, market_price, option_type, BracketLo),
    objective(S, K, T, r, market_price, option_type, BracketHi))

\* brentq(objective, 1e-6, 5.0, maxiter=100)
brentq(S, K, T, r, market_price, option_type) ==
  brentq_full_output(S, K, T, r, market_price, option_type).res

\* A handler that catches the solver's ValueError only.
CaughtValueError(e) == e = "ValueError"

\* The exceptions the handler of implied_vol catches: except Exception.
Caught(e) == e \in ExceptionClasses

\* A handler that reports an exception caught as the volatility 0.
HandledAsZero(res) == IF Failed(res) /\ Caught(res.exc) THEN Ok(0) ELSE res

\* A handler that lets the solver's RuntimeError through.
HandledButBudget(res) ==
  IF Failed(res) /\ Caught(res.exc) /\ res.exc # "RuntimeError" THEN NaN
  ELSE res

\* try: return res / except Exception: return np.nan
Handled(res) == IF Failed(res) /\ Caught(res.exc) THEN NaN ELSE res

\* implied_vol: brentq's root, or np.nan for an exception caught.
implied_vol(S, K, T, r, market_price, option_type) ==
  Handled(brentq(S, K, T, r, market_price, option_type))

\* POST /price: the pricer on the request's fields, q included.
api_price(S, K, T, r, sigma, option_type, q) ==
  black_scholes_price(S, K, T, r, sigma, option_type, q)

\* POST /greeks: the five Greeks in the order delta, gamma, theta, vega, rho;
\* the first exception ends the request.  The request's q is not passed on.
api_greeks(S, K, T, r, sigma, option_type, q) ==
  LET d == delta(S, K, T, r, sigma, option_type)
      g == gamma(S, K, T, r, sigma)
      t == theta(S, K, T, r, sigma, option_type)
      v == vega(S, K, T, r, sigma)
      r_ == rho(S, K, T, r, sigma, option_type)
  IN  IF Failed(d) THEN d
      ELSE IF Failed(g) THEN g
      ELSE IF Failed(t) THEN t
      ELSE IF Failed(v) THEN v
      ELSE IF Failed(r_) THEN r_
      ELSE Ok([delta |-> d.val, gamma |-> g.val, theta |-> t.val,
               vega |-> v.val, rho |-> r_.val])

(***************************************************************************)
(* numpy's process-wide random generator, as far as model_comparison uses  *)
(* it: the seed it was last given and the number of normals drawn since.   *)
(***************************************************************************)
Generator(seed, pos) == [seed |-> seed, pos |-> pos]

\* np.random.seed(seed)
np_random_seed(seed) == Generator(seed, 0)

\* The first normals numpy's generator returns after seed(42) and seed(0).
Seed42Normals ==
  <<496714, -138264, 647689, 1523030, -234153, -234137, 1579213, 767435,
    -469474, 542560, -463418, -465730, 241962, -1913280, -1724918, -562288,
    -1012831, 314247, -908024, -1412304>>
Seed0Normals ==
  <<1764052, 400157, 978738, 2240893, 1867558, -977278, 950088, -151357,
    -103219, 410599, 144044, 1454274, 761038, 121675, 443863, 333674,
    1494079, -205158, 313068, -854096>>
StreamLen == Len(Seed42Normals)

\* np.random.standard_normal(size) on generator g: the values, and g
\* afterwards.
standard_normal(g, size) ==
  [i \in 1..size |->
     IF g.seed = 42 THEN Seed42Normals[g.pos + i] ELSE Seed0Normals[g.pos + i]]
Drawn(g, size) == Generator(g.seed, g.pos + size)

(***************************************************************************)
(* model_comparison: the lattice, the simulation and the harness.  numpy   *)
(* floats do not raise on a division by zero or a square root of a         *)
(* negative number: they give inf or nan, and nan spreads to the result.   *)
(***************************************************************************)
\* x ** k for an integer k >= 0
RECURSIVE Pow(_, _)
Pow(x, k) == IF k = 0 THEN SCALE ELSE MulFix(x, Pow(x, k - 1))

\* The payoff with every kind but "put" paid as a call.
PayoffPutOnly(ST, K, option_type) ==
  IF option_type = "put" THEN Max(K - ST, 0) ELSE Max(ST - K, 0)

\* max(ST - K, 0) for a call, max(K - ST, 0) otherwise.
Payoff(ST, K, option_type) ==
  IF option_type = "call" THEN Max(ST - K, 0) ELSE Max(K - ST, 0)

\* Lines 12-16: the payoffs at the steps + 1 terminal prices
\* S * u ** (steps - i) * d ** i, i = 0..steps.
TerminalLayer(S, K, option_type, steps, u, d) ==
  [i \in 1..(steps + 1) |->
     Ok(Payoff(MulFix(MulFix(S, Pow(u, steps + 1 - i)), Pow(d, i - 1)),
               K, option_type))]

\* Line 9: p = (exp(r * dt) - d) / (u - d).  With u = d the quotient is
\* 0/0 or x/0: nan or inf, and every value computed from it is nan.
Probability(r, dt, u, d) ==
  IF u = d THEN NaN ELSE Ok(DivFix(Exp(MulFix(r, dt)) - d, u - d))

\* A layer with its values one above the other kept instead of combined.
CollapseKeepLast(values, p, disc) == values

\* Line 19, one iteration:
\* values = disc * (p * values[:-1] + (1 - p) * values[1:]).
Collapse(values, p, disc) ==
  [i \in 1..(Len(values) - 1) |->
     IF p.nan \/ values[i].nan \/ values[i + 1].nan THEN NaN
     ELSE Ok(MulFix(disc, MulFix(p.val, values[i].val)
                            + MulFix(SCALE - p.val, values[i + 1].val)))]

\* Lines 18-19: the layer after k iterations of the loop.
RECURSIVE LayerAfter(_, _, _, _)
LayerAfter(values, p, disc, k) ==
  IF k = 0 THEN values
  ELSE Collapse(LayerAfter(values, p, disc, k - 1), p, disc)

\* The layer of the lattice after k iterations.
Layer(S, K, r, option_type, steps, dt, u, d, k) ==
  LayerAfter(TerminalLayer(S, K, option_type, steps, u, d),
             Probability(r, dt, u, d), Exp(-MulFix(r, dt)), k)

\* The layers with every node replaced by the payoff of exercising at it
\* when that is larger.
RECURSIVE ExercisedLayer(_, _, _, _, _, _, _, _, _)
ExercisedLayer(S, K, r, option_type, steps, dt, u, d, k) ==
  IF k = 0 THEN TerminalLayer(S, K, option_type, steps, u, d)
  ELSE [i \in 1..(steps + 1 - k) |->
          Ok(Max(Collapse(ExercisedLayer(S, K, r, option_type, steps, dt, u,
                                         d, k - 1),
                          Probability(r, dt, u, d),
                          Exp(-MulFix(r, dt)))[i].val,
                 Payoff(MulFix(MulFix(S, Pow(u, steps - k + 1 - i)),
                               Pow(d, i - 1)),
                        K, option_type)))]

\* The lattice with the early-exercise check.
LatticeAmerican(S, K, r, option_type, steps, dt, u, d) ==
  IF u = d THEN NaN
  ELSE ExercisedLayer(S, K, r, option_type, steps, dt, u, d, steps)[1]

\* Lines 9-20 for the up factor u and the down factor d = 1 / u: values[0]
\* after `steps` iterations.
Lattice(S, K, r, option_type, steps, dt, u, d) ==
  Layer(S, K, r, option_type, steps, dt, u, d, steps)[1]

\* The lattice from u on.
LatticeUp(S, K, r, option_type, steps, dt, u) ==
  Lattice(S, K, r, option_type, steps, dt, u, DivFix(SCALE, u))

\* Lines 6-7: u = exp(sigma * sqrt(dt)) with dt = T / steps.
UpFactor(T, sigma, steps) == Exp(MulFix(sigma, Sqrt(RDiv(T, steps))))

\* The layer of binomial_tree_price(S, K, T, r, sigma, option_type, steps)
\* after k iterations of its loop, T >= 0.
BinomialLayer(S, K, T, r, sigma, option_type, steps, k) ==
  Layer(S, K, r, option_type, steps, RDiv(T, steps),
        UpFactor(T, sigma, steps), DivFix(SCALE, UpFactor(T, sigma, steps)),
        k)

\* binomial_tree_price(S, K, T, r, sigma, option_type, steps), steps >= 1.
binomial_tree_price(S, K, T, r, sigma, option_type, steps) ==
  IF T < 0 THEN NaN
  ELSE LatticeUp(S, K, r, option_type, steps, RDiv(T, steps),
                 UpFactor(T, sigma, steps))

\* The sum of the payoffs of the paths Z[1..k].
RECURSIVE PayoffSum(_, _, _, _, _, _, _, _)
PayoffSum(S, K, T, r, sigma, option_type, Z, k) ==
  IF k = 0 THEN 0
  ELSE PayoffSum(S, K, T, r, sigma, option_type, Z, k - 1)
         + Payoff(MulFix(S, Exp(MulFix(r - RDiv(MulFix(sigma, sigma), 2), T)
                                  + MulFix(MulFix(sigma, Sqrt(T)), Z[k]))),
                  K, option_type)

\* Lines 25-31 of monte_carlo_price on the normals Z: the discounted mean
\* of the payoffs.
monte_carlo_value(S, K, T, r, sigma, option_type, Z) ==
  IF T < 0 \/ Len(Z) = 0 THEN NaN
  ELSE Ok(MulFix(Exp(-MulFix(r, T)),
                 RDiv(PayoffSum(S, K, T, r, sigma, option_type, Z, Len(Z)),
                      Len(Z))))

\* The generator with np.random.seed(42) left out.
Unseeded(g) == g

\* Line 23 of monte_carlo_price on the generator g: np.random.seed(42).
Seeded(g) == np_random_seed(42)

\* monte_carlo_price(S, K, T, r, sigma, option_type, n_paths) called with the
\* process-wide generator in state g: the price returned.
monte_carlo_price(S, K, T, r, sigma, option_type, n_paths, g) ==
  monte_carlo_value(S, K, T, r, sigma, option_type,
                    standard_normal(Seeded(g), n_paths))

\* The process-wide generator after that call.
monte_carlo_generator(n_paths, g) == Drawn(Seeded(g), n_paths)

\* The step and path counts benchmark_models runs the lattice and the
\* simulation with (the code's defaults are 1000 and 100000).
MaxSteps == 3
MaxPaths == 3

\* The keys of the dictionary benchmark_models returns.
Methods == {"Black-Scholes", "Binomial Tree", "Monte Carlo"}

\* results[m] = {"price": price, "time": t1 - t0}
Entry(price, time) == [price |-> price, time |-> time]

\* benchmark_models from the three prices on: an exception of
\* black_scholes_price ends the call; bt and mc are numbers or nan.
Results(bs, bt, mc, times) ==
  IF Failed(bs) THEN bs
  ELSE Ok([m \in Methods |->
             IF m = "Black-Scholes" THEN Entry(bs, times[1])
             ELSE IF m = "Binomial Tree" THEN Entry(bt, times[2])
             ELSE Entry(mc, times[3])])

\* benchmark_models with the lattice run without the option type, at its
\* default "call".
benchmark_models_default_kind(S, K, T, r, sigma, option_type, g, times) ==
  Results(black_scholes_price(S, K, T, r, sigma, option_type, 0),
          binomial_tree_price(S, K, T, r, sigma, "call", MaxSteps),
          monte_carlo_price(S, K, T, r, sigma, option_type, MaxPaths, g),
          times)

\* benchmark_models(S, K, T, r, sigma, option_type) with the generator in
\* state g and the three elapsed times measured as `times`.
benchmark_models(S, K, T, r, sigma, option_type, g, times) ==
  Results(black_scholes_price(S, K, T, r, sigma, option_type, 0),
          binomial_tree_price(S, K, T, r, sigma, option_type, MaxSteps),
          monte_carlo_price(S, K, T, r, sigma, option_type, MaxPaths, g),
          times)

(***************************************************************************)
(* option_data_fetcher: the YFinanceOption table is a sequence of rows in  *)
(* insertion order.  Prices and volatilities are scaled by SCALE, variance *)
(* percentages are percent scaled by SCALE, expirations are days from now. *)
(***************************************************************************)
\* OptionDataFetcher.risk_free_rate, 0.05 by default.
RiskFreeRate == SCALE \div 20

\* The cap of calculate_variance_percentage and the bound of the queries:
\* 1000 percent.
VarianceCap == 1000 * SCALE

\* One cent, the limit of the sub-cent rule.
Cent == SCALE \div 100

\* The default variance_threshold and the threshold of high_variance_count.
Threshold == 25 * SCALE

\* An expiration given as a string (empty, malformed, or a date `days` from
\* now) and one given as a pandas Timestamp.
Text(text, days) == [str |-> TRUE, text |-> text, days |-> days]
Stamp(days) == [str |-> FALSE, text |-> "date", days |-> days]

\* (bid + ask) / 2 if bid > 0 and ask > 0 else lastPrice
CurrentPrice(option_data) ==
  IF option_data.bid > 0 /\ option_data.ask > 0
    THEN (option_data.bid + option_data.ask) \div 2
    ELSE option_data.lastPrice

\* calculate_time_to_expiry: max(days / 365.25, 0.001)
calculate_time_to_expiry(days) ==
  Max(RDiv(days * 4 * SCALE, 1461), SCALE \div 1000)

\* The price, or 0.0 where black_scholes_price raised.
OrZero(p) == IF Failed(p) THEN 0 ELSE p.val

\* calculate_black_scholes_for_option
calculate_black_scholes_for_option(option_data, stock_price, time_to_expiry, option_type) ==
  IF option_data.strike <= 0 \/ option_data.impliedVolatility <= 0 THEN 0
  ELSE OrZero(black_scholes_price(stock_price, option_data.strike,
                                  time_to_expiry, RiskFreeRate,
                                  option_data.impliedVolatility, option_type,
                                  0))

\* calculate_variance_percentage without the sub-cent rule of lines 209-213.
calculate_variance_percentage_no_subcent(current_price, bs_price) ==
  IF bs_price <= 0 THEN 0
  ELSE IF Abs(current_price - bs_price) >= 10 * bs_price THEN VarianceCap
  ELSE DivFix(Abs(current_price - bs_price), bs_price) * 100

\* calculate_variance_percentage(current_price, black_scholes_price).  The
\* quotient is at least 10 exactly when min() returns the cap.
calculate_variance_percentage(current_price, bs_price) ==
  IF bs_price <= 0 THEN 0
  ELSE IF bs_price < Cent
    THEN (IF current_price < Cent THEN 0 ELSE VarianceCap)
  ELSE IF Abs(current_price - bs_price) >= 10 * bs_price THEN VarianceCap
  ELSE DivFix(Abs(current_price - bs_price), bs_price) * 100

\* The YFinanceOption record of lines 308-329, with the columns the queries
\* and the clean-up read.
Record(symbol, option_data, option_type, bs_price) ==
  [symbol |-> symbol,
   option_type |-> option_type,
   lastPrice |-> option_data.lastPrice,
   volume |-> option_data.volume,
   expiration_date |-> option_data.expiration.days,
   black_scholes_price |-> bs_price,
   variance_percentage |->
     calculate_variance_percentage(CurrentPrice(option_data), bs_price)]

\* Lines 237-282: the option is skipped before any price is computed.
SkippedEarly(option_data) ==
  \/ option_data.expiration.str /\ option_data.expiration.text # "date"
  \/ option_data.expiration.days < 0
  \/ option_data.expiration.days > 730
  \/ CurrentPrice(option_data) <= 0
  \/ option_data.volume <= 0

\* Lines 285-333 from the Black-Scholes price on: the records added and
\* committed, and the value the try block returns.
StoreWith(symbol, option_data, option_type, bs_price) ==
  IF bs_price <= 0 THEN [added |-> <<>>, returns |-> FALSE]
  ELSE [added |-> <<Record(symbol, option_data, option_type, bs_price)>>,
        returns |-> TRUE]

\* Lines 233-340, the try block of store_option_data.
StoreTry(symbol, option_data, option_type, stock_price) ==
  IF SkippedEarly(option_data) THEN [added |-> <<>>, returns |-> FALSE]
  ELSE StoreWith(symbol, option_data, option_type,
                 calculate_black_scholes_for_option(
                   option_data, stock_price,
                   calculate_time_to_expiry(option_data.expiration.days),
                   option_type))

\* Lines 341-348: the finally block returns False whatever the try block
\* returned; the rollback after the commit undoes nothing.
StoreFinally(tried) == [added |-> tried.added, returns |-> FALSE]

\* store_option_data(symbol, option_data, option_type, expiration_date,
\* stock_data): the records it commits and the value it returns.
store_option_data(symbol, option_data, option_type, stock_price) ==
  StoreFinally(StoreTry(symbol, option_data, option_type, stock_price))

\* cleanup_old_data(): the rows that stay.
cleanup_old_data(db) ==
  SelectSeq(db, LAMBDA row : /\ row.expiration_date >= 0
                             /\ row.expiration_date <= 730
                             /\ row.lastPrice > 0
                             /\ row.volume >= 10)

\* order_by(variance_percentage.desc()): the largest first, rows of equal
\* variance in insertion order.
RECURSIVE Descending(_)
Descending(rows) ==
  IF rows = <<>> THEN <<>>
  ELSE LET top == CHOOSE i \in 1..Len(rows) :
                    \A j \in 1..Len(rows) :
                      \/ rows[j].variance_percentage
                           < rows[i].variance_percentage
                      \/ /\ rows[j].variance_percentage
                              = rows[i].variance_percentage
                         /\ i <= j
       IN  <<rows[top]>>
             \o Descending(SubSeq(rows, 1, top - 1)
                             \o SubSeq(rows, top + 1, Len(rows)))

\* Lines 466-469: the rows at or above the threshold and below 1000.
HighVariance(db, variance_threshold) ==
  SelectSeq(db, LAMBDA row :
                  /\ row.variance_percentage >= variance_threshold
                  /\ row.variance_percentage < VarianceCap)

\* get_high_variance_options(variance_threshold)
get_high_variance_options(db, variance_threshold) ==
  Descending(HighVariance(db, variance_threshold))

\* The sum of the variances of rows[1..k].
RECURSIVE SumVariance(_, _)
SumVariance(rows, k) ==
  IF k = 0 THEN 0
  ELSE SumVariance(rows, k - 1) + rows[k].variance_percentage

\* Lines 563-567: the mean of the variances strictly between 0 and 1000.
AverageVariance(rows) ==
  IF rows = <<>> THEN 0 ELSE RDiv(SumVariance(rows, Len(rows)), Len(rows))

\* get_analysis_summary()
get_analysis_summary(db) ==
  [total_options |-> Len(db),
   calls_count |-> Len(SelectSeq(db, LAMBDA row : row.option_type = "call")),
   puts_count |-> Len(SelectSeq(db, LAMBDA row : row.option_type = "put")),
   average_variance |->
     AverageVariance(SelectSeq(db, LAMBDA row :
                                     /\ row.variance_percentage > 0
                                     /\ row.variance_percentage < VarianceCap)),
   unique_symbols |-> Cardinality({db[i].symbol : i \in 1..Len(db)}),
   high_variance_count |->
     Len(SelectSeq(db, LAMBDA row : row.variance_percentage >= Threshold))]

\* Lines 364-372: the counters at the start of fetch_and_store_options.
NoResults ==
  [total_api_calls_made |-> 0,
   total_api_calls_successful |-> 0,
   total_options_fetched |-> 0,
   total_options_processed |-> 0,
   total_options_stored |-> 0,
   high_variance_options |-> <<>>,
   errors |-> <<>>]

\* A run of fetch_and_store_options: the table, the results so far and the
\* number of records the run has committed.
Run(db, results, count) ==
  [db |-> db, results |-> results, committed |-> count]

\* Lines 407-410 and 420-423 after store_option_data has returned.
Counted(run, stored) ==
  Run(run.db \o stored.added,
      IF stored.returns
        THEN [run.results EXCEPT !.total_options_processed = @ + 1]
        ELSE run.results,
      run.committed + Len(stored.added))

\* Lines 404-412 and 417-425: one option of a chain; an option without an
\* expiration is not handed to store_option_data.
ProcessOption(run, symbol, option_data, option_type, stock_price) ==
  IF option_data.expiration.str /\ option_data.expiration.text = "" THEN run
  ELSE Counted(run, store_option_data(symbol, option_data, option_type,
                                      stock_price))

\* Lines 403 and 416: the options chain[1..k] in order.
RECURSIVE ProcessChain(_, _, _, _, _, _)
ProcessChain(run, symbol, chain, option_type, stock_price, k) ==
  IF k = 0 THEN run
  ELSE ProcessOption(ProcessChain(run, symbol, chain, option_type,
                                  stock_price, k - 1),
                     symbol, chain[k], option_type, stock_price)

\* The two calls counted as successful, the options call not as made.
CountOptionsCallNotMade(results, fetched) ==
  [results EXCEPT !.total_api_calls_made = @ + 1,
                  !.total_api_calls_successful = @ + 2,
                  !.total_options_fetched = @ + fetched]

\* Lines 379-397 when both fetches succeed: the stock call and the options
\* call are counted as made and as successful, the options as fetched.
CountOptionsCall(results, fetched) ==
  [results EXCEPT !.total_api_calls_made = @ + 2,
                  !.total_api_calls_successful = @ + 2,
                  !.total_options_fetched = @ + fetched]

\* Lines 375-437, one symbol.  fetch.stock is what fetch_stock_data did
\* ("none", "raises" or "data" with fetch.current_price) and fetch.chain
\* what fetch_options_data did ("raises", or "data" with fetch.calls and
\* fetch.puts).
ProcessSymbol(run, symbol, fetch) ==
  IF fetch.stock = "raises"
    THEN [run EXCEPT !.results.total_api_calls_made = @ + 1,
                     !.results.errors = Append(@, "Error processing")]
  ELSE IF fetch.stock = "none" \/ fetch.current_price <= 0
    THEN [run EXCEPT !.results.total_api_calls_made = @ + 1,
                     !.results.errors = Append(@, "No valid stock data")]
  ELSE IF fetch.chain = "raises"
    THEN [run EXCEPT !.results.total_api_calls_made = @ + 2,
                     !.results.total_api_calls_successful = @ + 1,
                     !.results.errors = Append(@, "Error processing")]
  ELSE ProcessChain(
         ProcessChain(
           [run EXCEPT !.results =
                         CountOptionsCall(@, Len(fetch.calls)
                                               + Len(fetch.puts))],
           symbol, fetch.calls, "call", fetch.current_price,
           Len(fetch.calls)),
         symbol, fetch.puts, "put", fetch.current_price, Len(fetch.puts))

\* Line 374: the symbols 1..k in order, fetches[i] being what the fetches
\* for symbol i did.
RECURSIVE ProcessSymbols(_, _, _)
ProcessSymbols(run, fetches, k) ==
  IF k = 0 THEN run
  ELSE ProcessSymbol(ProcessSymbols(run, fetches, k - 1), k, fetches[k])

\* Lines 439-450: the stored count and the high-variance list.
Finished(run, variance_threshold) ==
  [run EXCEPT !.results.total_options_stored = Len(run.db),
              !.results.high_variance_options =
                get_high_variance_options(run.db, variance_threshold)]

\* fetch_and_store_options(symbols, variance_threshold) on the table db.
fetch_and_store_options(db, fetches, variance_threshold) ==
  Finished(ProcessSymbols(Run(cleanup_old_data(db), NoResults, 0),
                          fetches, Len(fetches)),
           variance_threshold)

(***************************************************************************)
(* The inputs.                                                             *)
(***************************************************************************)
MaxSpotIdx == 2
MaxVolIdx == 6

Spots == {0} \cup {(80 + 20 * i) * SCALE : i \in 0..MaxSpotIdx}
Strikes == {0, 90 * SCALE, 100 * SCALE}
Expiries == {-(SCALE \div 4), 0, SCALE \div 4, SCALE}
Rates == {-(SCALE \div 20), 0, SCALE \div 20}
VolGrid == <<-(SCALE \div 10), 0, SCALE \div 100, SCALE \div 5, 5 * SCALE,
             (54 * SCALE) \div 1000, (2 * SCALE) \div 5>>
Vols == {VolGrid[i] : i \in 1..MaxVolIdx}
Yields == {0, (3 * SCALE) \div 100}
Kinds == {"call", "put"}
\* The option_type strings a request may carry: OptionRequest.option_type
\* is a str and no function checks it.
RequestKinds == Kinds \cup {"straddle"}
MarketPrices == {SCALE \div 2, 10 * SCALE, 500 * SCALE}

(***************************************************************************)
(* The state: one request (S, K, T, r, sigma, q, option_type), the first   *)
(* call made with it (op, with its step or path count in arg, and out)     *)
(* and a second call that follows it (op2, with the arguments it changes   *)
(* in arg2, and out2), the process-wide random generator (rng) and the     *)
(* threads that are inside monte_carlo_price (thr).  The data jobs add:    *)
(* the rows of the iv_history table, the rows of the YFinanceOption table  *)
(* with the number of rows the running call has committed, and the         *)
(* position of get_stock_price among its fetches (robust).                 *)
(***************************************************************************)
VARIABLES S, K, T, r, sigma, q, option_type, op, arg, out, op2, arg2, out2,
          rng, thr,
          iv_history, yf_options, committed, robust

vars ==
  <<S, K, T, r, sigma, q, option_type, op, arg, out, op2, arg2, out2,
    rng, thr, iv_history, yf_options, committed, robust>>
request == <<S, K, T, r, sigma, q, option_type>>
stores == <<iv_history, yf_options, committed, robust>>

\* What get_stock_price returns: None, or a price.
None == [none |-> TRUE, price |-> 0]
ReturnedPrice(price) == [none |-> FALSE, price |-> price]

\* get_stock_price not called.  During a call: the attempt (from 0), the
\* fetch of the attempt (1-3 the periods "1d", "5d", "1mo", 4 the delayed
\* retry), the number of fetches made, and whether one of them gave
\* non-empty data with a positive last close.
RobustIdle ==
  [pc |-> "idle", symbol |-> "", max_retries |-> 0, attempt |-> 0,
   stage |-> 0, fetches |-> 0, good |-> FALSE, result |-> None]

\* The tables empty and no data job running.
StoresIdle ==
  /\ iv_history = <<>>
  /\ yf_options = <<>>
  /\ committed = 0
  /\ robust = RobustIdle

NoArg == [sigma |-> 0, option_type |-> "call", market_price |-> 0]
\* The step, path or symbol count of the first call; none for the
\* closed-form calls.
NoCount == [steps |-> 0, n_paths |-> 0, symbols |-> 0]

\* The threads that may be inside monte_carlo_price, and one that is not.
Threads == {1, 2}
NoThread == [pc |-> "out", n_paths |-> 0, out |-> Ok(0)]

Init ==
  /\ S \in Spots
  /\ K \in Strikes
  /\ T \in Expiries
  /\ r \in Rates
  /\ sigma \in Vols
  /\ q \in Yields
  /\ option_type \in Kinds
  /\ op = "none"
  /\ arg = NoCount
  /\ out = Ok(0)
  /\ op2 = "none"
  /\ arg2 = NoArg
  /\ out2 = Ok(0)
  /\ rng = np_random_seed(0)
  /\ thr = [t \in Threads |-> NoThread]
  /\ StoresIdle

Price ==
  /\ op = "none"
  /\ op2 = "none"
  /\ op' = "price"
  /\ out' = black_scholes_price(S, K, T, r, sigma, option_type, q)
  /\ UNCHANGED <<request, op2, arg2, out2, arg, rng, thr, stores>>

\* A second pricing of the same contract with another volatility or kind.
PriceAgain ==
  \E s2 \in Vols, k2 \in Kinds :
    /\ op = "price"
    /\ op2 = "none"
    /\ op2' = "price"
    /\ arg2' = [NoArg EXCEPT !.sigma = s2, !.option_type = k2]
    /\ out2' = black_scholes_price(S, K, T, r, s2, k2, q)
    /\ UNCHANGED <<request, op, out, arg, rng, thr, stores>>

Delta ==
  /\ op = "none"
  /\ op2 = "none"
  /\ op' = "delta"
  /\ out' = delta(S, K, T, r, sigma, option_type)
  /\ UNCHANGED <<request, op2, arg2, out2, arg, rng, thr, stores>>

\* A second delta of the same contract for the other or the same kind.
DeltaAgain ==
  \E k2 \in Kinds :
    /\ op = "delta"
    /\ op2 = "none"
    /\ op2' = "delta"
    /\ arg2' = [NoArg EXCEPT !.option_type = k2]
    /\ out2' = delta(S, K, T, r, sigma, k2)
    /\ UNCHANGED <<request, op, out, arg, rng, thr, stores>>

Gamma ==
  /\ op = "none"
  /\ op2 = "none"
  /\ op' = "gamma"
  /\ out' = gamma(S, K, T, r, sigma)
  /\ UNCHANGED <<request, op2, arg2, out2, arg, rng, thr, stores>>

Theta ==
  /\ op = "none"
  /\ op2 = "none"
  /\ op' = "theta"
  /\ out' = theta(S, K, T, r, sigma, option_type)
  /\ UNCHANGED <<request, op2, arg2, out2, arg, rng, thr, stores>>

Vega ==
  /\ op = "none"
  /\ op2 = "none"
  /\ op' = "vega"
  /\ out' = vega(S, K, T, r, sigma)
  /\ UNCHANGED <<request, op2, arg2, out2, arg, rng, thr, stores>>

Rho ==
  /\ op = "none"
  /\ op2 = "none"
  /\ op' = "rho"
  /\ out' = rho(S, K, T, r, sigma, option_type)
  /\ UNCHANGED <<request, op2, arg2, out2, arg, rng, thr, stores>>

ApiPrice ==
  /\ op = "none"
  /\ op2 = "none"
  /\ op' = "api_price"
  /\ out' = api_price(S, K, T, r, sigma, option_type, q)
  /\ UNCHANGED <<request, op2, arg2, out2, arg, rng, thr, stores>>

\* The same body posted to /greeks after /price.
ApiGreeks ==
  /\ op = "api_price"
  /\ op2 = "none"
  /\ op2' = "api_greeks"
  /\ arg2' = NoArg
  /\ out2' = api_greeks(S, K, T, r, sigma, option_type, q)
  /\ UNCHANGED <<request, op, out, arg, rng, thr, stores>>

\* implied_vol is called on a quoted market price.
ImpliedVol ==
  \E m \in MarketPrices :
    /\ op = "none"
    /\ op2 = "none"
    /\ op2' = "implied_vol"
    /\ arg2' = [NoArg EXCEPT !.market_price = m, !.option_type = option_type]
    /\ out2' = implied_vol(S, K, T, r, m, option_type)
    /\ UNCHANGED <<request, op, out, arg, rng, thr, stores>>

\* implied_vol is called on the price the pricer has just returned.
ImpliedVolOfPrice ==
  /\ op = "price"
  /\ op2 = "none"
  /\ ~Failed(out)
  /\ op2' = "implied_vol"
  /\ arg2' = [NoArg EXCEPT !.market_price = out.val,
                           !.option_type = option_type]
  /\ out2' = implied_vol(S, K, T, r, out.val, option_type)
  /\ UNCHANGED <<request, op, out, arg, rng, thr, stores>>

Next ==
  \/ Price
  \/ PriceAgain
  \/ Delta
  \/ DeltaAgain
  \/ Gamma
  \/ Theta
  \/ Vega
  \/ Rho
  \/ ApiPrice
  \/ ApiGreeks

Spec == Init /\ [][Next]_vars

(***************************************************************************)
(* The implied-volatility solver: contracts priced at a volatility of the  *)
(* bracket (or not at all) and handed to implied_vol.                      *)
(***************************************************************************)
MaxIVVolIdx == 5
IVVolGrid == <<BracketLo, SCALE \div 100, SCALE \div 5, 2 * SCALE, BracketHi,
               (2 * SCALE) \div 5>>
IVVols == {IVVolGrid[i] : i \in 1..MaxIVVolIdx}

InitIV ==
  /\ S \in Spots
  /\ K \in Strikes
  /\ T \in {0, SCALE \div 4, SCALE}
  /\ r \in {0, SCALE \div 20}
  /\ sigma \in IVVols
  /\ q \in Yields
  /\ option_type \in Kinds
  /\ op = "none"
  /\ arg = NoCount
  /\ out = Ok(0)
  /\ op2 = "none"
  /\ arg2 = NoArg
  /\ out2 = Ok(0)
  /\ rng = np_random_seed(0)
  /\ thr = [t \in Threads |-> NoThread]
  /\ StoresIdle

NextIV ==
  \/ Price
  \/ ImpliedVol
  \/ ImpliedVolOfPrice

SpecIV == InitIV /\ [][NextIV]_vars

(***************************************************************************)
(* The comparison harness and the two numerical pricers, called one after  *)
(* the other by code that also uses the process-wide generator itself.     *)
(***************************************************************************)
\* The draws the calling code makes itself before the model stops it.
MaxDraws == 2
\* The elapsed times time.time() can measure, in clock ticks.
Ticks == {0, 1}

InitCmp ==
  /\ S \in Spots \ {0}
  /\ K \in Strikes \ {0}
  /\ T \in {0, SCALE \div 4, SCALE}
  /\ r \in {0, SCALE \div 20}
  /\ sigma \in {0, SCALE \div 5, (2 * SCALE) \div 5}
  /\ q = 0
  /\ option_type \in Kinds
  /\ op = "none"
  /\ arg = NoCount
  /\ out = Ok(0)
  /\ op2 = "none"
  /\ arg2 = NoArg
  /\ out2 = Ok(0)
  /\ rng = np_random_seed(0)
  /\ thr = [t \in Threads |-> NoThread]
  /\ StoresIdle

Binomial ==
  \E steps \in 1..MaxSteps :
    /\ op = "none"
    /\ op2 = "none"
    /\ op' = "binomial_tree"
    /\ arg' = [NoCount EXCEPT !.steps = steps]
    /\ out' = binomial_tree_price(S, K, T, r, sigma, option_type, steps)
    /\ UNCHANGED <<request, op2, arg2, out2, rng, thr, stores>>

MonteCarlo ==
  \E n_paths \in 1..MaxPaths :
    /\ op = "none"
    /\ op2 = "none"
    /\ op' = "monte_carlo"
    /\ arg' = [NoCount EXCEPT !.n_paths = n_paths]
    /\ out' = monte_carlo_price(S, K, T, r, sigma, option_type, n_paths, rng)
    /\ rng' = monte_carlo_generator(n_paths, rng)
    /\ UNCHANGED <<request, op2, arg2, out2, thr, stores>>

\* A second binomial_tree_price with the arguments of the first.
BinomialAgain ==
  /\ op = "binomial_tree"
  /\ op2 = "none"
  /\ op2' = "binomial_tree"
  /\ out2' = binomial_tree_price(S, K, T, r, sigma, option_type, arg.steps)
  /\ UNCHANGED <<request, op, arg, out, arg2, rng, thr, stores>>

\* A second monte_carlo_price with the arguments of the first.
MonteCarloAgain ==
  /\ op = "monte_carlo"
  /\ op2 = "none"
  /\ op2' = "monte_carlo"
  /\ out2' = monte_carlo_price(S, K, T, r, sigma, option_type, arg.n_paths,
                               rng)
  /\ rng' = monte_carlo_generator(arg.n_paths, rng)
  /\ UNCHANGED <<request, op, arg, out, arg2, thr, stores>>

\* monte_carlo_price called for its duration only, as benchmark.py does.
MonteCarloDropped ==
  \E n_paths \in 1..MaxPaths :
    /\ op2 = "none"
    /\ rng.pos < MaxPaths + MaxDraws
    /\ rng' = monte_carlo_generator(n_paths, rng)
    /\ UNCHANGED <<request, op, arg, out, op2, arg2, out2, thr, stores>>

Benchmark ==
  \E times \in [1..3 -> Ticks] :
    /\ op = "none"
    /\ op2 = "none"
    /\ op' = "benchmark"
    /\ out' = benchmark_models(S, K, T, r, sigma, option_type, rng, times)
    /\ rng' = monte_carlo_generator(MaxPaths, rng)
    /\ UNCHANGED <<request, arg, op2, arg2, out2, thr, stores>>

\* The calling code draws one number from the process-wide generator.
Draw ==
  /\ op2 = "none"
  /\ rng.pos < MaxPaths + MaxDraws
  /\ rng' = Drawn(rng, 1)
  /\ UNCHANGED <<request, op, arg, out, op2, arg2, out2, thr, stores>>

\* The calling code seeds the process-wide generator.
Reseed ==
  \E seed \in {0, 42} :
    /\ op2 = "none"
    /\ rng' = np_random_seed(seed)
    /\ UNCHANGED <<request, op, arg, out, op2, arg2, out2, thr, stores>>

NextCmp ==
  \/ Price
  \/ Binomial
  \/ MonteCarlo
  \/ MonteCarloAgain
  \/ MonteCarloDropped
  \/ Benchmark
  \/ Draw
  \/ Reseed

SpecCmp == InitCmp /\ [][NextCmp]_vars

\* The lattice alone: binomial_tree_price called once, and once more with
\* the same arguments.
NextLattice ==
  \/ Binomial
  \/ BinomialAgain

SpecLattice == InitCmp /\ [][NextLattice]_vars

(***************************************************************************)
(* Requests whose option_type is any string: each function is called once  *)
(* with it, POST /greeks after POST /price.                                *)
(***************************************************************************)
InitKinds ==
  /\ S \in Spots \ {0}
  /\ K \in Strikes \ {0}
  /\ T \in {0, SCALE \div 4, SCALE}
  /\ r \in {0, SCALE \div 20}
  /\ sigma \in {0, SCALE \div 5, (2 * SCALE) \div 5}
  /\ q \in Yields
  /\ option_type \in RequestKinds
  /\ op = "none"
  /\ arg = NoCount
  /\ out = Ok(0)
  /\ op2 = "none"
  /\ arg2 = NoArg
  /\ out2 = Ok(0)
  /\ rng = np_random_seed(0)
  /\ thr = [t \in Threads |-> NoThread]
  /\ StoresIdle

NextKinds ==
  \/ Price
  \/ Delta
  \/ Theta
  \/ Rho
  \/ ApiPrice
  \/ ApiGreeks
  \/ Binomial
  \/ MonteCarlo

SpecKinds == InitKinds /\ [][NextKinds]_vars

(***************************************************************************)
(* The option fetcher: store_option_data called directly, then one         *)
(* fetch_and_store_options over one or more symbols, then the queries.     *)
(***************************************************************************)
MaxSymbols == 2
MaxStored == 1

\* An option as yfinance gives it.
Option(expiration, bid, ask, lastPrice, volume, strike, impliedVolatility) ==
  [expiration |-> expiration, bid |-> bid, ask |-> ask,
   lastPrice |-> lastPrice, volume |-> volume, strike |-> strike,
   impliedVolatility |-> impliedVolatility]

\* Options of a chain: traded at 12, quoted 4.5/4.7 without a last price,
\* thinly traded at 10 far above the strike-130 call's value, expired, and
\* without an expiration.
Traded == Option(Stamp(91), 0, 0, 12 * SCALE, 100, 100 * SCALE, SCALE \div 5)
Quoted ==
  Option(Stamp(91), (9 * SCALE) \div 2, (47 * SCALE) \div 10, 0, 100,
         100 * SCALE, SCALE \div 5)
Thin == Option(Stamp(91), 0, 0, 10 * SCALE, 5, 130 * SCALE, SCALE \div 5)
Expired ==
  Option(Stamp(-1), 0, 0, 12 * SCALE, 100, 100 * SCALE, SCALE \div 5)
Undated ==
  Option(Text("", 0), 0, 0, 12 * SCALE, 100, 100 * SCALE, SCALE \div 5)
ChainOptions == {Traded, Quoted, Thin, Expired, Undated}

\* Options store_option_data is called with directly: those of a chain, and
\* options with a date string, a malformed date, a far expiration, no
\* price, no volume, no strike and no volatility.
DirectOptions ==
  ChainOptions \cup
  {Option(Text("date", 91), 0, 0, 12 * SCALE, 100, 100 * SCALE, SCALE \div 5),
   Option(Text("bad", 0), 0, 0, 12 * SCALE, 100, 100 * SCALE, SCALE \div 5),
   Option(Stamp(800), 0, 0, 12 * SCALE, 100, 100 * SCALE, SCALE \div 5),
   Option(Stamp(91), 0, 0, 0, 100, 100 * SCALE, SCALE \div 5),
   Option(Stamp(91), 0, 0, 12 * SCALE, 0, 100 * SCALE, SCALE \div 5),
   Option(Stamp(91), 0, 0, 12 * SCALE, 100, 0, SCALE \div 5),
   Option(Stamp(91), 0, 0, 12 * SCALE, 100, 100 * SCALE, 0)}

\* The (calls, puts) fetch_options_data may return for a symbol.
ChainPairs ==
  {<<<<>>, <<>>>>,
   <<<<Traded>>, <<>>>>,
   <<<<Thin>>, <<Thin>>>>,
   <<<<Quoted, Expired>>, <<Traded>>>>,
   <<<<Undated>>, <<Quoted, Thin>>>>}

\* What the two fetches for one symbol may do.
Fetches ==
  {[stock |-> st, current_price |-> 0, chain |-> "raises",
    calls |-> <<>>, puts |-> <<>>] : st \in {"none", "raises", "data"}}
  \cup {[stock |-> "data", current_price |-> 100 * SCALE, chain |-> "raises",
         calls |-> <<>>, puts |-> <<>>]}
  \cup {[stock |-> "data", current_price |-> 100 * SCALE, chain |-> "data",
         calls |-> pair[1], puts |-> pair[2]] : pair \in ChainPairs}

\* The arguments calculate_variance_percentage is called with.
CurrentPrices ==
  {0, SCALE \div 200, 8 * SCALE, 10 * SCALE, 100 * SCALE}
ModelPrices ==
  {-SCALE, 0, SCALE \div 200, SCALE \div 50, 8 * SCALE, 10 * SCALE}

InitFetcher ==
  /\ S = 100 * SCALE
  /\ K = 100 * SCALE
  /\ T = SCALE
  /\ r = RiskFreeRate
  /\ sigma = SCALE \div 5
  /\ q = 0
  /\ option_type = "call"
  /\ op = "none"
  /\ arg = NoCount
  /\ out = Ok(0)
  /\ op2 = "none"
  /\ arg2 = NoArg
  /\ out2 = Ok(0)
  /\ rng = np_random_seed(0)
  /\ thr = [t \in Threads |-> NoThread]
  /\ StoresIdle

\* calculate_variance_percentage called alone; the call is kept with its
\* result.
VariancePercentage ==
  \E current_price \in CurrentPrices, bs_price \in ModelPrices :
    /\ op = "none"
    /\ op' = "calculate_variance_percentage"
    /\ out' = Ok([current_price |-> current_price,
                  black_scholes_price |-> bs_price,
                  variance |-> calculate_variance_percentage(current_price,
                                                             bs_price)])
    /\ UNCHANGED <<request, arg, op2, arg2, out2, rng, thr, stores>>

\* The table and the result after store_option_data.
StoreDone(stored) ==
  /\ out' = Ok(stored.returns)
  /\ yf_options' = yf_options \o stored.added
  /\ committed' = Len(stored.added)

StoreOptionData ==
  \E option_data \in DirectOptions, kind \in Kinds :
    /\ op \in {"none", "store_option_data"}
    /\ op2 = "none"
    /\ Len(yf_options) < MaxStored
    /\ op' = "store_option_data"
    /\ StoreDone(store_option_data(1, option_data, kind, 100 * SCALE))
    /\ UNCHANGED <<request, arg, op2, arg2, out2, rng, thr, iv_history,
                   robust>>

\* The table and the result after fetch_and_store_options.
FetchDone(run) ==
  /\ out' = Ok(run.results)
  /\ yf_options' = run.db
  /\ committed' = run.committed

FetchAndStoreOptions ==
  \E k \in 1..MaxSymbols :
    \E fetches \in [1..k -> Fetches] :
      /\ op \in {"none", "store_option_data"}
      /\ op2 = "none"
      /\ op' = "fetch_and_store_options"
      /\ arg' = [NoCount EXCEPT !.symbols = k]
      /\ FetchDone(fetch_and_store_options(yf_options, fetches, Threshold))
      /\ UNCHANGED <<request, op2, arg2, out2, rng, thr, iv_history,
                     robust>>

GetHighVarianceOptions ==
  /\ op \in {"store_option_data", "fetch_and_store_options"}
  /\ op2 = "none"
  /\ op2' = "get_high_variance_options"
  /\ out2' = Ok(get_high_variance_options(yf_options, Threshold))
  /\ UNCHANGED <<request, op, arg, out, arg2, rng, thr, stores>>

GetAnalysisSummary ==
  /\ op \in {"store_option_data", "fetch_and_store_options"}
  /\ op2 = "none"
  /\ op2' = "get_analysis_summary"
  /\ out2' = Ok(get_analysis_summary(yf_options))
  /\ UNCHANGED <<request, op, arg, out, arg2, rng, thr, stores>>

NextFetcher ==
  \/ VariancePercentage
  \/ StoreOptionData
  \/ FetchAndStoreOptions
  \/ GetHighVarianceOptions
  \/ GetAnalysisSummary

SpecFetcher == InitFetcher /\ [][NextFetcher]_vars

(***************************************************************************)
(* The callers of implied_vol: fetch_and_store_iv writes one iv_history    *)
(* row per quote of the chain, plot_iv_smile returns the volatilities.     *)
(***************************************************************************)
MaxQuotes == 2

\* Line 18 and line 27: the implied volatility of each quote (K, price) of
\* chain[1..k].
RECURSIVE ImpliedVols(_, _, _, _, _, _)
ImpliedVols(spot, expiry, rate, kind, chain, k) ==
  IF k = 0 THEN <<>>
  ELSE Append(ImpliedVols(spot, expiry, rate, kind, chain, k - 1),
              implied_vol(spot, chain[k].strike, expiry, rate,
                          chain[k].lastPrice, kind))

\* Lines 19-27: the OptionIVHistory rows added for the chain.
IVRows(kind, chain, ivs) ==
  [i \in 1..Len(chain) |->
     [strike |-> chain[i].strike, option_type |-> kind, iv |-> ivs[i]]]

\* fetch_and_store_iv: the rows it commits.
fetch_and_store_iv(spot, expiry, rate, kind, chain) ==
  IVRows(kind, chain,
         ImpliedVols(spot, expiry, rate, kind, chain, Len(chain)))

\* plot_iv_smile: the strikes and volatilities it plots and returns.
plot_iv_smile(spot, expiry, rate, kind, chain) ==
  [strikes |-> [i \in 1..Len(chain) |-> chain[i].strike],
   ivs |-> ImpliedVols(spot, expiry, rate, kind, chain, Len(chain))]

\* The quotes of a chain: a strike and its last price.
Quotes ==
  {[strike |-> strike, lastPrice |-> lastPrice] :
     strike \in Strikes \ {0}, lastPrice \in MarketPrices}
QuoteChains == UNION {[1..k -> Quotes] : k \in 1..MaxQuotes}

InitETL ==
  /\ S = 100 * SCALE
  /\ K = 100 * SCALE
  /\ T \in {SCALE \div 4, SCALE}
  /\ r = SCALE \div 100
  /\ sigma = SCALE \div 5
  /\ q = 0
  /\ option_type \in Kinds
  /\ op = "none"
  /\ arg = NoCount
  /\ out = Ok(0)
  /\ op2 = "none"
  /\ arg2 = NoArg
  /\ out2 = Ok(0)
  /\ rng = np_random_seed(0)
  /\ thr = [t \in Threads |-> NoThread]
  /\ StoresIdle

FetchAndStoreIV ==
  \E chain \in QuoteChains :
    /\ op = "none"
    /\ op' = "fetch_and_store_iv"
    /\ iv_history' = iv_history
                       \o fetch_and_store_iv(S, T, r, option_type, chain)
    /\ UNCHANGED <<request, arg, out, op2, arg2, out2, rng, thr, yf_options,
                   committed, robust>>

PlotIVSmile ==
  \E chain \in QuoteChains :
    /\ op = "none"
    /\ op' = "plot_iv_smile"
    /\ out' = Ok(plot_iv_smile(S, T, r, option_type, chain))
    /\ UNCHANGED <<request, arg, op2, arg2, out2, rng, thr, stores>>

NextETL ==
  \/ FetchAndStoreIV
  \/ PlotIVSmile

SpecETL == InitETL /\ [][NextETL]_vars

(***************************************************************************)
(* RobustDataFetcher.get_stock_price, one ticker.history call at a time.   *)
(* Every call of ticker.history returns or raises.                         *)
(***************************************************************************)
MaxRetries == 3

\* What ticker.history may do: raise, return an empty frame, or return
\* data whose last close is `close`.
Closes == {-SCALE, 0, SCALE \div 100, 100 * SCALE}
Histories ==
  {[raises |-> TRUE, empty |-> FALSE, close |-> 0],
   [raises |-> FALSE, empty |-> TRUE, close |-> 0]}
  \cup {[raises |-> FALSE, empty |-> FALSE, close |-> c] : c \in Closes}

\* Lines 21-25 and 53-54: the call starts its first attempt, or returns
\* None when max_retries leaves it none.
Called(symbol, max_retries) ==
  [RobustIdle EXCEPT !.symbol = symbol,
                     !.max_retries = max_retries,
                     !.pc = IF max_retries > 0 THEN "history" ELSE "done",
                     !.stage = IF max_retries > 0 THEN 1 ELSE 0]

\* Lines 25, 36, 39-42, 49-54: after a fetch that returned nothing, the
\* next period, the delayed retry, the next attempt, or None.
NextFetch(st) ==
  IF st.stage < 4 THEN [st EXCEPT !.stage = @ + 1]
  ELSE IF st.attempt + 1 < st.max_retries
    THEN [st EXCEPT !.attempt = @ + 1, !.stage = 1]
  ELSE [st EXCEPT !.attempt = @ + 1, !.pc = "done", !.result = None]

\* The last close returned whenever the data is not empty.
AfterHistoryUnchecked(st, history) ==
  IF ~history.raises /\ ~history.empty
    THEN [st EXCEPT !.pc = "done", !.result = ReturnedPrice(history.close)]
    ELSE NextFetch(st)

\* Lines 28-36 and 42-51: the last close is returned if the data is not
\* empty and the close is > 0; otherwise, and after an exception, the call
\* goes on.
AfterHistory(st, history) ==
  IF ~history.raises /\ ~history.empty /\ history.close > 0
    THEN [st EXCEPT !.pc = "done", !.result = ReturnedPrice(history.close)]
    ELSE NextFetch(st)

InitRobust ==
  /\ S = 100 * SCALE
  /\ K = 100 * SCALE
  /\ T = SCALE
  /\ r = RiskFreeRate
  /\ sigma = SCALE \div 5
  /\ q = 0
  /\ option_type = "call"
  /\ op = "none"
  /\ arg = NoCount
  /\ out = Ok(0)
  /\ op2 = "none"
  /\ arg2 = NoArg
  /\ out2 = Ok(0)
  /\ rng = np_random_seed(0)
  /\ thr = [t \in Threads |-> NoThread]
  /\ StoresIdle

GetStockPrice ==
  \E symbol \in {"AAPL", "^TNX"}, max_retries \in 0..MaxRetries :
    /\ robust.pc = "idle"
    /\ robust' = Called(symbol, max_retries)
    /\ UNCHANGED <<request, op, arg, out, op2, arg2, out2, rng, thr,
                   iv_history, yf_options, committed>>

\* One ticker.history call of get_stock_price and what follows it up to
\* the next one or the return.
History ==
  \E history \in Histories :
    /\ robust.pc = "history"
    /\ robust' =
         [AfterHistory(robust, history) EXCEPT
            !.fetches = @ + 1,
            !.good = @ \/ (~history.raises /\ ~history.empty
                            /\ history.close > 0)]
    /\ UNCHANGED <<request, op, arg, out, op2, arg2, out2, rng, thr,
                   iv_history, yf_options, committed>>

NextRobust ==
  \/ GetStockPrice
  \/ History

SpecRobust == InitRobust /\ [][NextRobust]_vars /\ WF_vars(NextRobust)

(***************************************************************************)
(* monte_carlo_price called from several threads at once.  The interpreter *)
(* may switch threads between np.random.seed (line 23) and                 *)
(* np.random.standard_normal (line 24); what follows line 24 works on the  *)
(* thread's own Z.                                                         *)
(***************************************************************************)
InitThreads ==
  /\ S \in Spots \ {0}
  /\ K \in Strikes \ {0}
  /\ T \in {0, SCALE \div 4, SCALE}
  /\ r \in {0, SCALE \div 20}
  /\ sigma \in {0, SCALE \div 5, (2 * SCALE) \div 5}
  /\ q = 0
  /\ option_type \in Kinds
  /\ op = "none"
  /\ arg = NoCount
  /\ out = Ok(0)
  /\ op2 = "none"
  /\ arg2 = NoArg
  /\ out2 = Ok(0)
  /\ rng = np_random_seed(0)
  /\ thr \in [Threads ->
               {[pc |-> "start", n_paths |-> n_paths, out |-> Ok(0)] :
                  n_paths \in 1..MaxPaths}]
  /\ StoresIdle

\* Line 23 in thread t.
ThreadSeed ==
  \E t \in Threads :
    /\ thr[t].pc = "start"
    /\ rng' = Seeded(rng)
    /\ thr' = [thr EXCEPT ![t].pc = "seeded"]
    /\ UNCHANGED <<request, op, arg, out, op2, arg2, out2, stores>>

\* Lines 24-31 in thread t.
ThreadDraw ==
  \E t \in Threads :
    /\ thr[t].pc = "seeded"
    /\ rng' = Drawn(rng, thr[t].n_paths)
    /\ thr' = [thr EXCEPT
                 ![t].pc = "done",
                 ![t].out = monte_carlo_value(S, K, T, r, sigma, option_type,
                              standard_normal(rng, thr[t].n_paths))]
    /\ UNCHANGED <<request, op, arg, out, op2, arg2, out2, stores>>

NextThreads ==
  \/ ThreadSeed
  \/ ThreadDraw

SpecThreads == InitThreads /\ [][NextThreads]_vars

(***************************************************************************)
(* The claims.                                                             *)
(***************************************************************************)
\* The tolerance of the statements about prices: 1e-3, above the rounding
\* error the fixed-point arithmetic leaves in a price.
PriceTol == SCALE \div 1000
\* 1e-4, the tolerance of the implied-volatility round trip.
VolTol == SCALE \div 10000

\* The first and the second call priced the contract (second: with arg2).
PricedOnce == op = "price"
PricedTwice == op = "price" /\ op2 = "price"

\* C1: with T <= 0 black_scholes_price returns the undiscounted intrinsic
\* value, max(0, S-K) for a call and max(0, K-S) for a put, whatever r, sigma
\* and q are, also when sigma <= 0.
C1_ExpiredIntrinsic ==
  /\ (PricedOnce /\ T <= 0) =>
       out = Ok(IF option_type = "call" THEN Max(0, S - K) ELSE Max(0, K - S))
  /\ (PricedTwice /\ T <= 0) =>
       out2 = Ok(IF arg2.option_type = "call" THEN Max(0, S - K)
                 ELSE Max(0, K - S))

C1_Witness ==
  /\ PricedOnce
  /\ T <= 0
  /\ sigma <= 0
  /\ r # 0
  /\ q # 0
  /\ option_type = "call"
  /\ S > K
  /\ out = Ok(S - K)

\* C2: with T > 0 and sigma <= 0 black_scholes_price returns the intrinsic
\* value discounted by e^{-rT}, whatever q is.
C2_ZeroVolDiscountedIntrinsic ==
  /\ (PricedOnce /\ T > 0 /\ sigma <= 0) =>
       out = Ok(MulFix(Exp(-MulFix(r, T)),
                IF option_type = "call" THEN Max(0, S - K) ELSE Max(0, K - S)))
  /\ (PricedTwice /\ T > 0 /\ arg2.sigma <= 0) =>
       out2 = Ok(MulFix(Exp(-MulFix(r, T)),
                 IF arg2.option_type = "call" THEN Max(0, S - K)
                 ELSE Max(0, K - S)))

C2_Witness ==
  /\ PricedOnce
  /\ T > 0
  /\ sigma = 0
  /\ r > 0
  /\ q # 0
  /\ option_type = "put"
  /\ K > S
  /\ S > 0
  /\ out.exc = "none"
  /\ out.val > 0
  /\ out.val < K - S

\* The inputs the pricer's contract covers: S, K > 0, T >= 0, sigma in [0, 5].
ValidContract == S > 0 /\ K > 0 /\ T >= 0
ValidVol(s) == 0 <= s /\ s <= 5 * SCALE

\* C3: put-call parity, call - put = S e^{-qT} - K e^{-rT} (to PriceTol), for
\* every valid input, T = 0 and sigma = 0 included.
C3_PutCallParity ==
  ( /\ PricedTwice
    /\ ValidContract
    /\ ValidVol(sigma)
    /\ arg2.sigma = sigma
    /\ option_type = "call"
    /\ arg2.option_type = "put" ) =>
      /\ out.exc = "none"
      /\ out2.exc = "none"
      /\ Abs((out.val - out2.val)
             - (MulFix(S, Exp(-MulFix(q, T))) - MulFix(K, Exp(-MulFix(r, T)))))
           <= PriceTol

\* C4: for a fixed contract (q = 0) the price is non-decreasing in sigma over
\* [0, 5], the step from sigma = 0 to sigma > 0 included.
C4_MonotoneInVol ==
  ( /\ PricedTwice
    /\ ValidContract
    /\ q = 0
    /\ arg2.option_type = option_type
    /\ ValidVol(sigma)
    /\ ValidVol(arg2.sigma)
    /\ sigma <= arg2.sigma ) =>
      /\ out.exc = "none"
      /\ out2.exc = "none"
      /\ out.val <= out2.val + PriceTol

\* C5: black_scholes_price raises nothing on finite inputs with S, K >= 0.
C5_PriceNeverRaises ==
  (PricedOnce /\ S >= 0 /\ K >= 0) => out.exc = "none"

\* C6: at T = 0 delta returns the moneyness indicator: for a call 1 when
\* S > K and 0 otherwise, for a put a value that is non-zero only when S < K.
C6_DeltaAtExpiry ==
  (op = "delta" /\ T = 0 /\ S > 0 /\ K > 0 /\ ValidVol(sigma)) =>
    /\ out.exc = "none"
    /\ option_type = "call" => out.val = (IF S > K THEN SCALE ELSE 0)
    /\ option_type = "put" => (out.val # 0 => S < K)

\* C7: at T = 0 gamma, theta, vega and rho return 0 and raise nothing.
C7_GreeksZeroAtExpiry ==
  ( /\ op \in {"gamma", "theta", "vega", "rho"}
    /\ T = 0
    /\ S > 0
    /\ K > 0
    /\ ValidVol(sigma) ) => out = Ok(0)

\* C8: the Greeks use the d1 of black_scholes_price for the same
\* (S, K, T, r, sigma, q): after /price and /greeks on one body, the delta
\* reported is N of the d1 the price was computed from.
C8_GreeksShareD1 ==
  ( /\ op = "api_price"
    /\ op2 = "api_greeks"
    /\ ValidContract
    /\ T > 0
    /\ sigma > 0 ) =>
      /\ out.exc = "none"
      /\ out2.exc = "none"
      /\ _d1(S, K, T, r, sigma) = bs_d1(S, K, T, r, sigma, q)
      /\ out2.val.delta =
           (IF option_type = "call" THEN N(bs_d1(S, K, T, r, sigma, q).val)
            ELSE N(bs_d1(S, K, T, r, sigma, q).val) - SCALE)

\* implied_vol has returned (or raised): out2 is its outcome.
Returned == op2 = "implied_vol"

\* The price of the contract (q = 0) at the ends of the solver's bracket.
PriceAtLo == black_scholes_price(S, K, T, r, BracketLo, option_type, 0)
PriceAtHi == black_scholes_price(S, K, T, r, BracketHi, option_type, 0)

\* C9: implied_vol never raises; it returns the not-found result when the
\* price cannot be evaluated, when the objective has the same non-zero sign
\* at both ends of the bracket, and in particular when the market price is
\* above the price at sigma = 5.0 or below the price at sigma = 1e-6.
C9_ImpliedVolNeverRaises ==
  Returned =>
    /\ out2.exc = "none"
    /\ (Failed(PriceAtLo) \/ Failed(PriceAtHi)) => out2.nan
    /\ (~Failed(PriceAtLo) /\ ~Failed(PriceAtHi)) =>
         /\ ( /\ Sgn(PriceAtLo.val - arg2.market_price) # 0
              /\ Sgn(PriceAtLo.val - arg2.market_price)
                   = Sgn(PriceAtHi.val - arg2.market_price) ) => out2.nan
         /\ arg2.market_price > PriceAtHi.val => out2.nan
         /\ arg2.market_price < PriceAtLo.val => out2.nan

C9_Witness ==
  /\ Returned
  /\ ValidContract
  /\ T > 0
  /\ ~Failed(PriceAtHi)
  /\ arg2.market_price > PriceAtHi.val
  /\ out2 = NaN

\* implied_vol was called on the price returned for (S, K, T, r, sigma), q = 0.
RoundTrip ==
  /\ op = "price"
  /\ Returned
  /\ q = 0
  /\ ~Failed(out)
  /\ arg2.market_price = out.val
  /\ arg2.option_type = option_type

Identifiable ==
  /\ T > 0
  /\ BracketLo <= sigma - VolTol
  /\ sigma + VolTol <= BracketHi
  /\ LET below == black_scholes_price(S, K, T, r, sigma - VolTol, option_type, 0)
         above == black_scholes_price(S, K, T, r, sigma + VolTol, option_type, 0)
     IN  /\ ~Failed(below)
         /\ ~Failed(above)
         /\ out.val - below.val > PriceTol
         /\ above.val - out.val > PriceTol

RequestD1 == bs_d1(S, K, T, r, sigma, q).val
RequestD2 == bs_d2(RequestD1, T, sigma)

\* C15: the price returned by black_scholes_price is non-negative for every
\* valid input (S, K > 0, T >= 0, sigma >= 0, q >= 0, any r), in all three
\* branches: the value is not below zero by more than the model's resolution,
\* and where both arguments of N lie in the tail the float result, counted
\* in units of 2^-54, is not below zero.
C15_PriceNonNegative ==
  (PricedOnce /\ S > 0 /\ K > 0 /\ T >= 0 /\ sigma >= 0 /\ q >= 0) =>
    /\ out.exc = "none"
    /\ out.val > -PriceTol
    /\ (T > 0 /\ sigma > 0 /\ InTail(RequestD1, RequestD2, option_type)) =>
         bs_tail(S, K, T, r, option_type, q, RequestD1, RequestD2) >= 0

\* delta was called for the call and then for the put of one contract.
DeltaPair ==
  /\ op = "delta"
  /\ op2 = "delta"
  /\ option_type = "call"
  /\ arg2.option_type = "put"

\* C18: for S, K > 0, T > 0 and sigma > 0 the put delta is exactly the call
\* delta minus 1, the call delta lies in [0, 1] and the put delta in [-1, 0].
C18_DeltaPutCall ==
  (DeltaPair /\ S > 0 /\ K > 0 /\ T > 0 /\ sigma > 0) =>
    /\ out.exc = "none"
    /\ out2.exc = "none"
    /\ out2.val = out.val - SCALE
    /\ 0 <= out.val
    /\ out.val <= SCALE
    /\ -SCALE <= out2.val
    /\ out2.val <= 0

C18_Witness ==
  /\ DeltaPair
  /\ S > 0
  /\ K > 0
  /\ T > 0
  /\ sigma > 0
  /\ out.exc = "none"
  /\ out.val > 0
  /\ out.val < SCALE
  /\ out2 = Ok(out.val - SCALE)

\* C11: benchmark_models returns, for each of the three methods, its price
\* and its elapsed time and the absolute deviation of its price from the
\* closed-form price.
C11_BenchmarkEntries ==
  (op = "benchmark" /\ ~Failed(out)) =>
    /\ DOMAIN out.val = Methods
    /\ \A m \in Methods :
         /\ {"price", "time"} \subseteq DOMAIN out.val[m]
         /\ out.val[m].time \in Ticks
         /\ "deviation" \in DOMAIN out.val[m]
         /\ ~out.val[m].price.nan =>
              out.val[m].deviation
                = Abs(out.val[m].price.val - out.val["Black-Scholes"].price.val)

\* T = 0 or sigma = 0 with S, K > 0.
Degenerate == S > 0 /\ K > 0 /\ T >= 0 /\ sigma >= 0 /\ (T = 0 \/ sigma = 0)

\* C12: for degenerate but valid inputs binomial_tree_price and
\* monte_carlo_price, and every entry of benchmark_models, give a finite
\* number: no exception and no nan.
C12_DegenerateWellDefined ==
  Degenerate =>
    /\ op \in {"binomial_tree", "monte_carlo"} =>
         (out.exc = "none" /\ ~out.nan)
    /\ op = "benchmark" =>
         /\ out.exc = "none"
         /\ \A m \in Methods :
              out.val[m].price.exc = "none" /\ ~out.val[m].price.nan

\* A call of a pricer or of the harness returns in this step.
CallReturns == op' # op \/ op2' # op2

\* C13: a call of a pricer or of benchmark_models leaves the process-wide
\* generator as it found it.
C13_GeneratorUntouched == [][CallReturns => rng' = rng]_vars

\* monte_carlo_price was called twice with the same arguments.
CalledTwice == op = "monte_carlo" /\ op2 = "monte_carlo"

\* C16: two sequential calls of monte_carlo_price with the same arguments
\* return the same price, the price of the first n_paths normals of seed 42,
\* whatever was drawn, seeded or priced before and between them.
C16_Reproducible ==
  CalledTwice =>
    /\ out2 = out
    /\ out = monte_carlo_value(S, K, T, r, sigma, option_type,
                               standard_normal(np_random_seed(42), arg.n_paths))

C16_Witness ==
  /\ CalledTwice
  /\ arg.n_paths > 1
  /\ T > 0
  /\ sigma > 0
  /\ out.exc = "none"
  /\ ~out.nan
  /\ out.val > 0
  /\ out2 = out

\* C14: whatever the interleaving of concurrent calls of monte_carlo_price,
\* each call returns the value it returns when run alone.
C14_ConcurrentAsAlone ==
  \A t \in Threads :
    thr[t].pc = "done" =>
      thr[t].out = monte_carlo_price(S, K, T, r, sigma, option_type,
                                     thr[t].n_paths, np_random_seed(0))

\* C19: a volatility implied_vol returns (not the not-found result) lies in
\* the bracket [1e-6, 5.0], whatever the market price.
C19_RootInBracket ==
  (Returned /\ out2.exc = "none" /\ ~out2.nan) =>
    (BracketLo <= out2.val /\ out2.val <= BracketHi)

C19_Witness ==
  /\ Returned
  /\ op = "none"
  /\ out2.exc = "none"
  /\ ~out2.nan
  /\ BracketLo < out2.val
  /\ out2.val < BracketHi

\* The solver's run for the call of implied_vol that has returned.
SolverRun ==
  brentq_full_output(S, K, T, r, arg2.market_price, arg2.option_type)

\* The solver's loop entered with the budget spent on a bracket still wide.
BudgetSpent ==
  BrentLoop(S, K, T, r, arg2.market_price, arg2.option_type,
            BracketLo, BracketHi, -1, 1, MaxIter)

\* The run made at most MaxIter iterations and the call returned its result
\* as the handler passes it on, without an exception.
WithinBudget(run) ==
  /\ run.it <= MaxIter
  /\ out2 = Handled(run.res)
  /\ out2.exc = "none"

RunLayer(k) == BinomialLayer(S, K, T, r, sigma, option_type, arg.steps, k)

\* C22: in binomial_tree_price with steps >= 1 the terminal layer has
\* steps + 1 values, the layer after k iterations of the loop has
\* steps + 1 - k values, and the value returned is the single value that is
\* left after `steps` iterations.
C22_LayersShrink ==
  op = "binomial_tree" =>
    /\ Len(RunLayer(0)) = arg.steps + 1
    /\ \A k \in 0..arg.steps : Len(RunLayer(k)) = arg.steps + 1 - k
    /\ RunLayer(arg.steps) = <<out>>

C22_Witness ==
  /\ op = "binomial_tree"
  /\ arg.steps = MaxSteps
  /\ ~out.nan
  /\ out.val > 0

\* n choose j
RECURSIVE Choose(_, _)
Choose(m, j) ==
  IF j = 0 \/ j = m THEN 1 ELSE Choose(m - 1, j - 1) + Choose(m - 1, j)

\* The sum over the terminal nodes 0..j of (m choose i) * p^(m - i) *
\* (1 - p)^i * payoff_i.
RECURSIVE Expected(_, _, _, _)
Expected(terminal, p, m, j) ==
  (IF j = 0 THEN 0 ELSE Expected(terminal, p, m, j - 1))
  + Choose(m, j) * MulFix(MulFix(Pow(p, m - j), Pow(SCALE - p, j)),
                          terminal[j + 1].val)

\* The discounted risk-neutral expectation of the terminal payoffs of the
\* lattice run of this state.
EuropeanValue ==
  MulFix(Exp(-MulFix(r, T)),
         Expected(RunLayer(0),
                  Probability(r, RDiv(T, arg.steps),
                              UpFactor(T, sigma, arg.steps),
                              DivFix(SCALE, UpFactor(T, sigma, arg.steps))).val,
                  arg.steps, arg.steps))

\* C23: binomial_tree_price is European and deterministic: the price is
\* the discounted expectation of the terminal payoffs, with no node
\* replaced by the payoff of exercising at it, and a second call with equal
\* arguments returns the same price.
C23_EuropeanDeterministic ==
  /\ (op = "binomial_tree" /\ ~out.nan) =>
       Abs(out.val - EuropeanValue) <= PriceTol
  /\ op2 = "binomial_tree" => out2 = out

\* A put whose lattice price is below the payoff of exercising it at once,
\* priced twice.
C23_Witness ==
  /\ op2 = "binomial_tree"
  /\ option_type = "put"
  /\ ~out.nan
  /\ out.val + PriceTol < K - S


(***************************************************************************)
(* The harness against its three pricers.                                  *)
(***************************************************************************)
\* The states the process-wide generator can be in when a pricer is called.
GeneratorStates ==
  {Generator(seed, pos) : seed \in {0, 42}, pos \in 0..(MaxPaths + MaxDraws)}

\* `reported` carries the prices bs and bt of the formula and the lattice
\* called alone, and the price of the simulation called alone in any state
\* of the generator.
SamePrices(reported, bs, bt) ==
  IF Failed(bs) THEN reported = bs
  ELSE /\ ~Failed(reported)
       /\ reported.val["Black-Scholes"].price = bs
       /\ reported.val["Binomial Tree"].price = bt
       /\ \A g \in GeneratorStates :
            reported.val["Monte Carlo"].price
              = monte_carlo_price(S, K, T, r, sigma, option_type, MaxPaths, g)

\* C24: the price benchmark_models reports for each method is the price
\* the pricer returns when called alone with the same
\* (S, K, T, r, sigma, kind) and the harness's step and path counts,
\* whatever was called before it.
C24_BenchmarkAsAlone ==
  op = "benchmark" =>
    SamePrices(out,
               black_scholes_price(S, K, T, r, sigma, option_type, 0),
               binomial_tree_price(S, K, T, r, sigma, option_type, MaxSteps))

\* A put benchmarked with three prices that differ.
C24_Witness ==
  /\ op = "benchmark"
  /\ option_type = "put"
  /\ ~Failed(out)
  /\ \A m \in Methods : ~out.val[m].price.nan /\ out.val[m].price.val > 0
  /\ out.val["Binomial Tree"].price # out.val["Black-Scholes"].price
  /\ out.val["Monte Carlo"].price # out.val["Black-Scholes"].price


(***************************************************************************)
(* Option kinds other than "call" and "put".                               *)
(***************************************************************************)
\* What the first call of this state returns when it is made for `kind`.
FirstCallFor(kind) ==
  CASE op = "price" -> black_scholes_price(S, K, T, r, sigma, kind, q)
    [] op = "api_price" -> api_price(S, K, T, r, sigma, kind, q)
    [] op = "delta" -> delta(S, K, T, r, sigma, kind)
    [] op = "theta" -> theta(S, K, T, r, sigma, kind)
    [] op = "rho" -> rho(S, K, T, r, sigma, kind)
    [] op = "binomial_tree" ->
         binomial_tree_price(S, K, T, r, sigma, kind, arg.steps)
    [] op = "monte_carlo" ->
         monte_carlo_price(S, K, T, r, sigma, kind, arg.n_paths, rng)

\* C30: black_scholes_price, delta, theta, rho, binomial_tree_price and
\* monte_carlo_price, called directly or through the API, return for an
\* option_type other than "call" what they return for "put".
C30_UnknownKindIsPut ==
  option_type # "call" =>
    /\ op # "none" => out = FirstCallFor("put")
    /\ op2 = "api_greeks" => out2 = api_greeks(S, K, T, r, sigma, "put", q)

\* An unrecognised kind answered by POST /greeks with a put's delta.
C30_Witness ==
  /\ option_type \notin Kinds
  /\ op2 = "api_greeks"
  /\ ~Failed(out2)
  /\ out2.val.delta < 0
  /\ out2 # api_greeks(S, K, T, r, sigma, "call", q)


(***************************************************************************)
(* The option fetcher.                                                     *)
(***************************************************************************)
\* C25: store_option_data returns True exactly when it has added and
\* committed a record, and after fetch_and_store_options the counter
\* total_options_processed is the number of records the run committed.
C25_ProcessedCountsCommitted ==
  /\ op = "store_option_data" => out.val = (committed = 1)
  /\ op = "fetch_and_store_options" =>
       out.val.total_options_processed = committed

\* The call of calculate_variance_percentage kept in this state.
VarianceCall == op = "calculate_variance_percentage"

\* The variance v is the percentage |current - bs| / bs * 100 below the
\* cap, or the cap where the percentage reaches it.
CappedPercentage(current_price, bs_price, v) ==
  IF v < VarianceCap
    THEN Abs(MulFix(v \div 100, bs_price) - Abs(current_price - bs_price))
           <= VolTol
    ELSE Abs(current_price - bs_price) >= 10 * bs_price

\* What C26 says of one call.
VarianceAsStated(current_price, bs_price, v) ==
  /\ 0 <= v /\ v <= VarianceCap
  /\ bs_price <= 0 => v = 0
  /\ (bs_price > 0 /\ bs_price < Cent) =>
       v = (IF current_price < Cent THEN 0 ELSE VarianceCap)
  /\ bs_price >= Cent => CappedPercentage(current_price, bs_price, v)
  /\ (current_price = 10 * SCALE /\ bs_price = 8 * SCALE) => v = 25 * SCALE

C27_CountMatchesList ==
  op2 = "get_analysis_summary" =>
    /\ out2.val.high_variance_count
         = Len(get_high_variance_options(yf_options, Threshold))
    /\ \A i \in 1..Len(yf_options) :
         yf_options[i].variance_percentage >= Threshold =>
           \E j \in 1..Len(get_high_variance_options(yf_options, Threshold)) :
             get_high_variance_options(yf_options, Threshold)[j]
               = yf_options[i]

\* C29: in the result of fetch_and_store_options the successful calls are
\* at most the calls made, these at most twice the symbols, and the
\* options processed at most the options fetched.
C29_CountersOrdered ==
  op = "fetch_and_store_options" =>
    /\ out.val.total_api_calls_successful <= out.val.total_api_calls_made
    /\ out.val.total_api_calls_made <= 2 * arg.symbols
    /\ out.val.total_options_processed <= out.val.total_options_fetched

\* A run over MaxSymbols symbols in which a fetch failed, another fetched
\* options, and a record was committed.
C29_Witness ==
  /\ op = "fetch_and_store_options"
  /\ arg.symbols = MaxSymbols
  /\ out.val.total_api_calls_successful < out.val.total_api_calls_made
  /\ out.val.total_api_calls_successful > 0
  /\ out.val.total_options_fetched > 0
  /\ out.val.errors # <<>>
  /\ committed > 0


(***************************************************************************)
(* get_stock_price.                                                        *)
(***************************************************************************)
\* The call has made at most max_retries attempts of at most four fetches.
AttemptsBounded ==
  /\ robust.attempt <= robust.max_retries
  /\ robust.pc = "history" => robust.attempt < robust.max_retries
  /\ robust.fetches <= 4 * robust.max_retries
  /\ robust.pc = "history" =>
       robust.fetches = 4 * robust.attempt + robust.stage - 1

\* A returned price is > 0, and None is returned exactly when no fetch gave
\* non-empty data with a positive last close.
ReturnsAsStated ==
  robust.pc = "done" =>
    /\ ~robust.result.none => robust.result.price > 0
    /\ robust.result.none <=> ~robust.good

\* C28: get_stock_price ends after at most max_retries attempts, each of
\* the three periods and one delayed retry; it returns only a price > 0,
\* and None exactly when no fetch of any attempt gave non-empty data with a
\* positive last close.
C28_RetriesBounded ==
  /\ [](AttemptsBounded /\ ReturnsAsStated)
  /\ (robust.pc = "history") ~> (robust.pc = "done")

\* None returned after max_retries full attempts in which data with a
\* non-positive close came back.
C28_Witness ==
  /\ robust.pc = "done"
  /\ robust.max_retries = MaxRetries
  /\ robust.result.none
  /\ robust.fetches = 4 * MaxRetries


(***************************************************************************)
(* The callers of implied_vol.                                             *)
(***************************************************************************)
\* C21: fetch_and_store_iv and plot_iv_smile do not pass a not-found
\* result of implied_vol on as a volatility: no iv_history row holds the
\* not-found sentinel, and no plotted volatility is it.
C21_NotFoundNotStored ==
  /\ \A i \in 1..Len(iv_history) : ~iv_history[i].iv.nan
  /\ op = "plot_iv_smile" =>
       \A i \in 1..Len(out.val.ivs) : ~out.val.ivs[i].nan


====
